---- MODULE Spec2Model ----
(***************************************************************************)
(* Turtle / Donchian + ATR calculation core (lib/turtle) of                *)
(* hyperliquid-turtle-trading, as a state machine: a candle window is      *)
(* produced by the normalizer (toCandle) and one core function is applied  *)
(* to it; the call's arguments and its result are the state.  The price    *)
(* page (HyperliquidPrices) and a Turtle panel are further machines: the   *)
(* stored poll interval, the WebSocket with its reconnect timers, the poll *)
(* timers, and the panel's candle fetches.                                 *)
(*                                                                         *)
(* JavaScript numbers are modelled as exact extended rationals             *)
(* [num, den]: den > 0 is a finite value in lowest terms, 1/0 and -1/0 are *)
(* +Infinity and -Infinity, 0/0 is NaN.  Arrays keep the source's 0-based  *)
(* indices: element k of an array is element k+1 of the sequence.          *)
(***************************************************************************)
EXTENDS Integers, Sequences, FiniteSets

VARIABLES candles, pc, op, args, result, trace,
          storage, pollInterval, phase, lastSaved, storageWorks,
          cancelled, loading, sockets, wsRef, wsConnected, timers, timerLog,
          reconnectTimeoutRef, reconnectAttempts, closesSinceOpen,
          socketsAtCleanup,
          pollChains, pollTimeoutRef, activeChain,
          fetches, candlesOf, candleError, panelLoading

\* a call of the calculation core: its window, arguments and result, and
\* the reads and calls it made on the way (trace)
coreVars == <<candles, pc, op, args, result, trace>>

\* the price page: the browser's storage and the stored poll interval
storeVars == <<storage, pollInterval, phase, lastSaved, storageWorks>>

\* the price page's WebSocket: the mount effect's flag, the sockets made so
\* far (a socket's id is its position), the refs, the pending reconnect
\* timers and the log of every timer ever set (a timer's id is its
\* position); closesSinceOpen and socketsAtCleanup are history variables
wsVars == <<cancelled, loading, sockets, wsRef, wsConnected, timers, timerLog,
            reconnectTimeoutRef, reconnectAttempts, closesSinceOpen,
            socketsAtCleanup>>

\* the price page's poll: one chain of timers per run of the poll effect (a
\* chain's id is its position), the timer ref, and the chain of the effect
\* that is in force (history variable, 0 when none is)
pollVars == <<pollChains, pollTimeoutRef, activeChain>>

\* a Turtle panel: the candle fetches started so far (a fetch's id is its
\* position), the fetch whose candles are stored, the fetch whose error
\* is shown (0: none), and the loading flag
panelVars == <<fetches, candlesOf, candleError, panelLoading>>

\* everything of the page
uiVars == <<storeVars, wsVars, pollVars, panelVars>>

vars == <<coreVars, uiVars>>

-----------------------------------------------------------------------------
(* Numbers *)

Abs(x) == IF x < 0 THEN -x ELSE x

Sign(x) == IF x > 0 THEN 1 ELSE IF x < 0 THEN -1 ELSE 0

RECURSIVE GCD(_, _)
GCD(a, b) == IF b = 0 THEN a ELSE GCD(b, a % b)

Norm(n, d) ==
  IF d = 0 THEN [num |-> Sign(n), den |-> 0]
  ELSE LET g == GCD(Abs(n), Abs(d))
       IN  [num |-> (Sign(d) * n) \div g, den |-> Abs(d) \div g]

Num(k) == [num |-> k, den |-> 1]
Zero == Num(0)
NaN == [num |-> 0, den |-> 0]
PosInf == [num |-> 1, den |-> 0]

IsNaN(a) == a.den = 0 /\ a.num = 0
IsFinite(a) == a.den # 0

RNeg(a) == [num |-> -a.num, den |-> a.den]

RAdd(a, b) ==
  IF IsNaN(a) \/ IsNaN(b) THEN NaN
  ELSE IF a.den = 0 /\ b.den = 0 THEN (IF a.num = b.num THEN a ELSE NaN)
  ELSE IF a.den = 0 THEN a
  ELSE IF b.den = 0 THEN b
  ELSE Norm(a.num * b.den + b.num * a.den, a.den * b.den)

RSub(a, b) == RAdd(a, RNeg(b))

RMul(a, b) == Norm(a.num * b.num, a.den * b.den)

RDiv(a, b) == RMul(a, Norm(b.den, b.num))

RLt(a, b) ==
  IF IsNaN(a) \/ IsNaN(b) THEN FALSE
  ELSE IF a.den = 0 /\ b.den = 0 THEN a.num < b.num
  ELSE a.num * b.den < b.num * a.den

RGt(a, b) == RLt(b, a)
RLe(a, b) == ~IsNaN(a) /\ ~IsNaN(b) /\ ~RLt(b, a)
RGe(a, b) == RLe(b, a)

RAbs(a) == [num |-> Abs(a.num), den |-> a.den]

\* Math.max(a, b, c): NaN if any argument is NaN
RMax3(a, b, c) ==
  IF IsNaN(a) \/ IsNaN(b) \/ IsNaN(c) THEN NaN
  ELSE LET ab == IF RLt(a, b) THEN b ELSE a
       IN  IF RLt(ab, c) THEN c ELSE ab

-----------------------------------------------------------------------------
(* Candle normalizer *)

Digits == {"0", "1", "2", "3", "4", "5", "6", "7", "8", "9"}

DigitVal(ch) ==
  CASE ch = "0" -> 0 [] ch = "1" -> 1 [] ch = "2" -> 2 [] ch = "3" -> 3
    [] ch = "4" -> 4 [] ch = "5" -> 5 [] ch = "6" -> 6 [] ch = "7" -> 7
    [] ch = "8" -> 8 [] ch = "9" -> 9

RECURSIVE DigitsValue(_)
DigitsValue(s) ==
  IF s = <<>> THEN 0
  ELSE 10 * DigitsValue(SubSeq(s, 1, Len(s) - 1)) + DigitVal(s[Len(s)])

\* Number(s) on a string given as its sequence of characters: the empty
\* string is 0, an optionally signed run of decimal digits is its value,
\* "Infinity" is +Infinity and any other text is NaN.
StrToNumber(s) ==
  IF s = <<>> THEN Zero
  ELSE IF s = <<"I", "n", "f", "i", "n", "i", "t", "y">> THEN PosInf
  ELSE LET neg  == s[1] = "-"
           body == IF neg THEN Tail(s) ELSE s
       IN  IF body # <<>> /\ \A k \in 1..Len(body) : body[k] \in Digits
           THEN Num(IF neg THEN -DigitsValue(body) ELSE DigitsValue(body))
           ELSE NaN

num(s) ==
  LET n == StrToNumber(s)
  IN  IF IsFinite(n) THEN n ELSE Zero

\* An optional number: JavaScript's undefined, or a value.
Undefined == [present |-> FALSE, val |-> Zero]

\* an absent text (null), and a present one
NoText == [present |-> FALSE, val |-> << >>]
SomeText(t) == [present |-> TRUE, val |-> t]

Some(x) == [present |-> TRUE, val |-> x]

toCandle(item) ==
  [o |-> num(item.o),
   c |-> num(item.c),
   h |-> num(item.h),
   l |-> num(item.l),
   v |-> IF item.v.present THEN Some(num(item.v.val)) ELSE Undefined]

-----------------------------------------------------------------------------
(* Donchian bands *)

Null == [kind |-> "null"]

\* the call ended with a TypeError (a property of undefined was read)
Throws == [kind |-> "throws"]

Max2(a, b) == IF a > b THEN a ELSE b

\* candles.slice(start, end) for 0 <= start: elements start .. end-1; a
\* negative end counts from the end of the array
Slice(cs, start, end) ==
  LET e == IF end < 0 THEN Max2(Len(cs) + end, 0)
           ELSE IF end > Len(cs) THEN Len(cs) ELSE end
  IN  IF e <= start THEN <<>> ELSE SubSeq(cs, start + 1, e)

\* the loop of donchianBands from index j (0-based) of the slice on
RECURSIVE BandsLoop(_, _, _, _)
BandsLoop(slice, j, upper, lower) ==
  IF j >= Len(slice) THEN [upper |-> upper, lower |-> lower]
  ELSE BandsLoop(slice, j + 1,
                 IF RGt(slice[j + 1].h, upper) THEN slice[j + 1].h ELSE upper,
                 IF RLt(slice[j + 1].l, lower) THEN slice[j + 1].l ELSE lower)

\* donchianBands with the length test off by one (<= for <)
donchianBands_lengthOffByOne(cs, n, endIndex) ==
  LET start == Max2(0, endIndex - n + 1)
      slice == Slice(cs, start, endIndex + 1)
  IN  IF Len(slice) <= n THEN Null
      ELSE LET b == BandsLoop(slice, 1, slice[1].h, slice[1].l)
           IN  [kind   |-> "bands",
                upper  |-> b.upper,
                lower  |-> b.lower,
                middle |-> RDiv(RAdd(b.upper, b.lower), Num(2))]

\* donchianBands scanning every bar up to endIndex, not the last n
donchianBands_scanFromStart(cs, n, endIndex) ==
  LET start == Max2(0, endIndex - n + 1)
      slice == Slice(cs, start, endIndex + 1)
      all   == Slice(cs, 0, endIndex + 1)
  IN  IF Len(slice) < n THEN Null
      ELSE LET b == BandsLoop(all, 1, all[1].h, all[1].l)
           IN  [kind   |-> "bands",
                upper  |-> b.upper,
                lower  |-> b.lower,
                middle |-> RDiv(RAdd(b.upper, b.lower), Num(2))]

\* donchianBands over the n bars before endIndex, the bar at endIndex left out
donchianBands_priorBarsOnly(cs, n, endIndex) ==
  LET start == Max2(0, endIndex - n)
      slice == Slice(cs, start, endIndex)
  IN  IF Len(slice) < n THEN Null
      ELSE IF Len(slice) = 0 THEN Throws
      ELSE LET b == BandsLoop(slice, 1, slice[1].h, slice[1].l)
           IN  [kind   |-> "bands",
                upper  |-> b.upper,
                lower  |-> b.lower,
                middle |-> RDiv(RAdd(b.upper, b.lower), Num(2))]

\* slice[0].h on an empty slice reads a property of undefined
donchianBands(cs, n, endIndex) ==
  LET start == Max2(0, endIndex - n + 1)
      slice == Slice(cs, start, endIndex + 1)
  IN  IF Len(slice) < n THEN Null
      ELSE IF Len(slice) = 0 THEN Throws
      ELSE LET b == BandsLoop(slice, 1, slice[1].h, slice[1].l)
           IN  [kind   |-> "bands",
                upper  |-> b.upper,
                lower  |-> b.lower,
                middle |-> RDiv(RAdd(b.upper, b.lower), Num(2))]

-----------------------------------------------------------------------------
(* True range and ATR *)

\* the loop of trueRange from bar i (0-based) on; tr is the array so far
RECURSIVE TrueRangeLoop(_, _, _)
TrueRangeLoop(cs, i, tr) ==
  IF i >= Len(cs) THEN tr
  ELSE LET h     == cs[i + 1].h
           l     == cs[i + 1].l
           prevC == IF i > 0 THEN cs[i].c ELSE h
       IN  TrueRangeLoop(cs, i + 1,
             Append(tr, RMax3(RSub(h, l), RAbs(RSub(h, prevC)), RAbs(RSub(l, prevC)))))

trueRange(cs) == TrueRangeLoop(cs, 0, <<>>)

\* for (let i = 0; i < n; i++) sum += tr[i]
RECURSIVE SumLoop(_, _, _, _)
SumLoop(tr, n, i, sum) ==
  IF i >= n THEN sum ELSE SumLoop(tr, n, i + 1, RAdd(sum, tr[i + 1]))

\* the Wilder step weighting the previous value by n instead of n - 1
RECURSIVE WilderLoop_weightN(_, _, _, _)
WilderLoop_weightN(tr, n, i, out) ==
  IF i >= Len(tr) THEN out
  ELSE WilderLoop_weightN(tr, n, i + 1,
         Append(out, Some(RDiv(RAdd(RMul(out[Len(out)].val, Num(n)), tr[i + 1]),
                               Num(n)))))

\* for (let i = n; i < tr.length; i++) out.push(...)
RECURSIVE WilderLoop(_, _, _, _)
WilderLoop(tr, n, i, out) ==
  IF i >= Len(tr) THEN out
  ELSE WilderLoop(tr, n, i + 1,
         Append(out, Some(RDiv(RAdd(RMul(out[Len(out)].val, Num(n - 1)), tr[i + 1]),
                               Num(n)))))

\* the same loop for n <= 0, where out[n - 1] = ... has set a property and
\* no element: the first step reads out[-1], which is that property for
\* n = 0 and undefined otherwise, and tr[i] is undefined for i < 0;
\* arithmetic on undefined gives NaN
RECURSIVE WilderLoopNoSeed(_, _, _, _, _)
WilderLoopNoSeed(tr, n, i, out, minusOne) ==
  IF i >= Len(tr) THEN out
  ELSE LET prev == IF Len(out) >= 1 THEN out[Len(out)].val ELSE minusOne
           x    == IF i >= 0 THEN tr[i + 1] ELSE NaN
       IN  WilderLoopNoSeed(tr, n, i + 1,
             Append(out, Some(RDiv(RAdd(RMul(prev, Num(n - 1)), x), Num(n)))),
             minusOne)

\* The result is a JavaScript array: for n >= 1, out[n-1] = ... on the empty
\* array leaves the elements 0 .. n-2 as holes (Undefined).
atr(cs, n) ==
  LET tr == trueRange(cs)
  IN  IF Len(tr) < n THEN <<>>
      ELSE LET sum  == SumLoop(tr, n, 0, Zero)
               seed == [k \in 1..n |-> IF k = n THEN Some(RDiv(sum, Num(n)))
                                               ELSE Undefined]
           IN  IF n >= 1 THEN WilderLoop(tr, n, n, seed)
               ELSE WilderLoopNoSeed(tr, n, n, <<>>,
                      IF n = 0 THEN RDiv(sum, Num(n)) ELSE NaN)

-----------------------------------------------------------------------------
(* Breakout classifier *)

\* breakoutSignal counting a close on the upper band as a breakout
breakoutSignal_inclusive(close, upper, lower) ==
  IF RGe(close, upper) THEN "long"
  ELSE IF RLt(close, lower) THEN "short"
  ELSE "none"

\* breakoutSignal counting a close on the lower band as a breakdown
breakoutSignal_lowerInclusive(close, upper, lower) ==
  IF RGt(close, upper) THEN "long"
  ELSE IF RLe(close, lower) THEN "short"
  ELSE "none"

breakoutSignal(close, upper, lower) ==
  IF RGt(close, upper) THEN "long"
  ELSE IF RLt(close, lower) THEN "short"
  ELSE "none"

\* breakoutType taking an undefined volume input as not confirming
breakoutType_volumeRequired(candle, upper, lower, N, threshold, volumeAboveAvg) ==
  LET h      == candle.h
      l      == candle.l
      c      == candle.c
      threshN == RMul(threshold, N)
  IN  IF RGt(c, upper)
      THEN (IF RGe(c, RAdd(upper, threshN)) /\ volumeAboveAvg = "true"
            THEN "true" ELSE "sub")
      ELSE IF RGt(h, upper) /\ RLe(c, upper) THEN "sub"
      ELSE IF RLt(c, lower)
      THEN (IF RLe(c, RSub(lower, threshN)) /\ volumeAboveAvg = "true"
            THEN "true" ELSE "sub")
      ELSE IF RLt(l, lower) /\ RGe(c, lower) THEN "sub"
      ELSE "none"

\* breakoutType with the short target on the wrong side of the lower band
breakoutType_shortTargetAbove(candle, upper, lower, N, threshold, volumeAboveAvg) ==
  LET h      == candle.h
      l      == candle.l
      c      == candle.c
      threshN == RMul(threshold, N)
  IN  IF RGt(c, upper)
      THEN (IF RGe(c, RAdd(upper, threshN)) /\ volumeAboveAvg # "false"
            THEN "true" ELSE "sub")
      ELSE IF RGt(h, upper) /\ RLe(c, upper) THEN "sub"
      ELSE IF RLt(c, lower)
      THEN (IF RLe(c, RAdd(lower, threshN)) /\ volumeAboveAvg # "false"
            THEN "true" ELSE "sub")
      ELSE IF RLt(l, lower) /\ RGe(c, lower) THEN "sub"
      ELSE "none"

\* breakoutType counting a wick that only touches a band as a breach
breakoutType_touchIsBreach(candle, upper, lower, N, threshold, volumeAboveAvg) ==
  LET h      == candle.h
      l      == candle.l
      c      == candle.c
      threshN == RMul(threshold, N)
  IN  IF RGt(c, upper)
      THEN (IF RGe(c, RAdd(upper, threshN)) /\ volumeAboveAvg # "false"
            THEN "true" ELSE "sub")
      ELSE IF RGe(h, upper) /\ RLe(c, upper) THEN "sub"
      ELSE IF RLt(c, lower)
      THEN (IF RLe(c, RSub(lower, threshN)) /\ volumeAboveAvg # "false"
            THEN "true" ELSE "sub")
      ELSE IF RLe(l, lower) /\ RGe(c, lower) THEN "sub"
      ELSE "none"

\* volumeAboveAvg is "undefined", "true" or "false"
breakoutType(candle, upper, lower, N, threshold, volumeAboveAvg) ==
  LET h      == candle.h
      l      == candle.l
      c      == candle.c
      threshN == RMul(threshold, N)
  IN  IF RGt(c, upper)
      THEN (IF RGe(c, RAdd(upper, threshN)) /\ volumeAboveAvg # "false"
            THEN "true" ELSE "sub")
      ELSE IF RGt(h, upper) /\ RLe(c, upper) THEN "sub"
      ELSE IF RLt(c, lower)
      THEN (IF RLe(c, RSub(lower, threshN)) /\ volumeAboveAvg # "false"
            THEN "true" ELSE "sub")
      ELSE IF RLt(l, lower) /\ RGe(c, lower) THEN "sub"
      ELSE "none"

-----------------------------------------------------------------------------
(* Evaluation *)

VolLookback == 20
VolMinBars == 21

\* sum of candles[i]?.v ?? 0 for i from lastIdx - 20 to lastIdx - 1
RECURSIVE VolSumLoop(_, _, _, _)
VolSumLoop(cs, i, lastIdx, sum) ==
  IF i >= lastIdx THEN sum
  ELSE VolSumLoop(cs, i + 1, lastIdx,
         RAdd(sum, IF i >= 0 /\ i < Len(cs) /\ cs[i + 1].v.present
                   THEN cs[i + 1].v.val ELSE Zero))

\* volRatio with the window moved one bar later: it holds the last bar and
\* leaves out the bar 20 places before it
volRatio_windowHoldsLastBar(cs, useVolumeFilter) ==
  LET lastIdx == Len(cs) - 1
      last    == cs[lastIdx + 1]
  IN  IF useVolumeFilter /\ last.v.present /\ Len(cs) >= VolMinBars
      THEN LET sum == VolSumLoop(cs, lastIdx - VolLookback + 1, lastIdx + 1, Zero)
               avg == RDiv(sum, Num(VolLookback))
           IN  Some(IF RGt(avg, Zero) THEN RDiv(last.v.val, avg) ELSE Num(1))
      ELSE Undefined

\* volRatio: an optional number
volRatio(cs, useVolumeFilter) ==
  LET lastIdx == Len(cs) - 1
      last    == cs[lastIdx + 1]
  IN  IF useVolumeFilter /\ last.v.present /\ Len(cs) >= VolMinBars
      THEN LET sum == VolSumLoop(cs, lastIdx - VolLookback, lastIdx, Zero)
               avg == RDiv(sum, Num(VolLookback))
           IN  Some(IF RGt(avg, Zero) THEN RDiv(last.v.val, avg) ELSE Num(1))
      ELSE Undefined

volumeAboveAvg(ratio) ==
  IF ~ratio.present THEN "undefined"
  ELSE IF RGe(ratio.val, Num(1)) THEN "true" ELSE "false"

\* strengthOf with the medium and weak branches exchanged
strengthOf_weakMediumSwapped(dir, c, bandsEntry, bands55) ==
  IF dir = "long"
  THEN LET aboveEntry == RGt(c, bandsEntry.upper)
           above55    == RGt(c, bands55.upper)
       IN  IF aboveEntry /\ above55 THEN "strong"
           ELSE IF above55 THEN "weak"
           ELSE IF aboveEntry THEN "medium"
           ELSE "none"
  ELSE IF dir = "short"
  THEN LET belowEntry == RLt(c, bandsEntry.lower)
           below55    == RLt(c, bands55.lower)
       IN  IF belowEntry /\ below55 THEN "strong"
           ELSE IF below55 THEN "weak"
           ELSE IF belowEntry THEN "medium"
           ELSE "none"
  ELSE "none"

strengthOf(dir, c, bandsEntry, bands55) ==
  IF dir = "long"
  THEN LET aboveEntry == RGt(c, bandsEntry.upper)
           above55    == RGt(c, bands55.upper)
       IN  IF aboveEntry /\ above55 THEN "strong"
           ELSE IF above55 THEN "medium"
           ELSE IF aboveEntry THEN "weak"
           ELSE "none"
  ELSE IF dir = "short"
  THEN LET belowEntry == RLt(c, bandsEntry.lower)
           below55    == RLt(c, bands55.lower)
       IN  IF belowEntry /\ below55 THEN "strong"
           ELSE IF below55 THEN "medium"
           ELSE IF belowEntry THEN "weak"
           ELSE "none"
  ELSE "none"

\* the tag, as the list of the pieces the template string joins (the
\* source's en dash and one-half sign are written in ASCII here)
tagOf(dir, strength, bt) ==
  LET dirLabel == IF dir = "none" THEN "None"
                  ELSE IF dir = "long" THEN "Long" ELSE "Short"
      btLabel  == IF bt = "true" THEN "True (full)"
                  ELSE IF bt = "sub" THEN "Sub (DCA)" ELSE "None"
  IN  IF dir = "none" THEN <<"None">>
      ELSE <<dirLabel, " - ", strength, " - ", btLabel>>

\* suggestionOf with the full-size and the scale-in texts exchanged
suggestionOf_fullAndPartialSwapped(dir, bt) ==
  IF dir = "none" THEN "No breakout; no entry."
  ELSE IF bt = "true" THEN "DCA: use 1/2 unit or 1st tranche; add on confirmation."
  ELSE IF bt = "sub" THEN "Full Turtle position size at current mid."
  ELSE "No entry."

suggestionOf(dir, bt) ==
  IF dir = "none" THEN "No breakout; no entry."
  ELSE IF bt = "true" THEN "Full Turtle position size at current mid."
  ELSE IF bt = "sub" THEN "DCA: use 1/2 unit or 1st tranche; add on confirmation."
  ELSE "No entry."

evaluationTag(cs, lenEntry, lenExit, len55, N, threshold, useVolumeFilter) ==
  LET lastIdx == Len(cs) - 1
  IN  IF lastIdx < len55 THEN Null
      ELSE LET last       == cs[lastIdx + 1]
               bandsEntry == donchianBands(cs, lenEntry, lastIdx)
               bands55    == donchianBands(cs, len55, lastIdx)
           IN  IF bandsEntry.kind = "throws" \/ bands55.kind = "throws"
               THEN Throws
               ELSE IF bandsEntry.kind = "null" \/ bands55.kind = "null" THEN Null
               ELSE LET dir == breakoutSignal(last.c, bandsEntry.upper, bandsEntry.lower)
                        vol == volumeAboveAvg(volRatio(cs, useVolumeFilter))
                        bt  == breakoutType(last, bandsEntry.upper, bandsEntry.lower,
                                            N, threshold, vol)
                        strength == strengthOf(dir, last.c, bandsEntry, bands55)
                    IN  [kind         |-> "evaluation",
                         direction    |-> dir,
                         strength     |-> strength,
                         breakoutType |-> bt,
                         tag          |-> tagOf(dir, strength, bt),
                         suggestion   |-> suggestionOf(dir, bt)]

\* one entry of a call's trace: a candle read or a call, with the period
\* or index it was given and the volume flag it was passed
Step(fn, n, vol) == [fn |-> fn, n |-> n, vol |-> vol]

\* evaluationTagCalls with the two band computations moved above the
\* length guard
evaluationTagCalls_bandsBeforeGuard(cs, lenEntry, lenExit, len55, N, threshold, useVolumeFilter) ==
  LET lastIdx == Len(cs) - 1
      bands   == << Step("donchianBands", lenEntry, ""),
                    Step("donchianBands", len55, "") >>
  IN  IF lastIdx < len55 THEN bands
      ELSE LET bandsEntry == donchianBands(cs, lenEntry, lastIdx)
               bands55    == donchianBands(cs, len55, lastIdx)
               head       == << Step("candles[]", lastIdx, "") >> \o bands
           IN  IF bandsEntry.kind = "null" \/ bands55.kind = "null" THEN head
               ELSE head \o
                    << Step("breakoutSignal", 0, ""),
                       Step("breakoutType", 0,
                            volumeAboveAvg(volRatio(cs, useVolumeFilter))) >>

\* the candle read and the calls evaluationTag makes, in the order of the
\* source's statements
evaluationTagCalls(cs, lenEntry, lenExit, len55, N, threshold, useVolumeFilter) ==
  LET lastIdx == Len(cs) - 1
  IN  IF lastIdx < len55 THEN << >>
      ELSE LET bandsEntry == donchianBands(cs, lenEntry, lastIdx)
               bands55    == donchianBands(cs, len55, lastIdx)
               head       == << Step("candles[]", lastIdx, ""),
                                Step("donchianBands", lenEntry, ""),
                                Step("donchianBands", len55, "") >>
           IN  IF bandsEntry.kind = "throws" THEN SubSeq(head, 1, 2)
               ELSE IF bands55.kind = "throws" THEN head
               ELSE IF bandsEntry.kind = "null" \/ bands55.kind = "null" THEN head
               ELSE head \o
                    << Step("breakoutSignal", 0, ""),
                       Step("breakoutType", 0,
                            volumeAboveAvg(volRatio(cs, useVolumeFilter))) >>

\* the exit level of a position: the opposite band of the exit period
trailingExitLevel(cs, exitPeriod, isLong, endIndex) ==
  LET bands == donchianBands(cs, exitPeriod, endIndex)
  IN  IF bands.kind = "throws" THEN Throws
      ELSE IF bands.kind = "null" THEN Null
      ELSE [kind |-> "number",
            value |-> IF isLong THEN bands.lower ELSE bands.upper]

-----------------------------------------------------------------------------
(* Position size and stop / target levels *)

\* Math.floor
RFloor(a) == IF a.den = 0 THEN a ELSE Num(a.num \div a.den)

RECURSIVE IntPow10(_)
IntPow10(k) == IF k <= 0 THEN 1 ELSE 10 * IntPow10(k - 1)

\* 10 ** k for an integer k
Pow10(k) == IF k >= 0 THEN Num(IntPow10(k)) ELSE Norm(1, IntPow10(-k))

\* positionSize without the guard on the price
positionSize_priceNotGuarded(accountUsd, riskPct, N, price, szDecimals) ==
  IF RLe(N, Zero) THEN Zero
  ELSE LET riskDollars == RMul(RDiv(riskPct, Num(100)), accountUsd)
           size        == RDiv(riskDollars, RMul(N, price))
           factor      == Pow10(szDecimals)
       IN  RDiv(RFloor(RMul(size, factor)), factor)

\* positionSize rounding to the nearest step instead of down
positionSize_roundsToNearest(accountUsd, riskPct, N, price, szDecimals) ==
  IF RLe(N, Zero) \/ RLe(price, Zero) THEN Zero
  ELSE LET riskDollars == RMul(RDiv(riskPct, Num(100)), accountUsd)
           size        == RDiv(riskDollars, RMul(N, price))
           factor      == Pow10(szDecimals)
       IN  RDiv(RFloor(RAdd(RMul(size, factor), Norm(1, 2))), factor)

positionSize(accountUsd, riskPct, N, price, szDecimals) ==
  IF RLe(N, Zero) \/ RLe(price, Zero) THEN Zero
  ELSE LET riskDollars == RMul(RDiv(riskPct, Num(100)), accountUsd)
           size        == RDiv(riskDollars, RMul(N, price))
           factor      == Pow10(szDecimals)
       IN  RDiv(RFloor(RMul(size, factor)), factor)

\* the options argument: absent, or a record of two optional numbers
NoOptions == [present |-> FALSE, tpMultiple |-> Undefined,
              trailingExit |-> Undefined]
Options(tpMultiple, trailingExit) ==
  [present |-> TRUE, tpMultiple |-> tpMultiple, trailingExit |-> trailingExit]

\* slTpLevels with the short stop on the long side of the entry
slTpLevels_shortStopBelow(entry, N, isLong, options) ==
  LET sl   == RSub(entry, RMul(Num(2), N))
      tpm  == options.tpMultiple
      hasT == options.present /\ tpm.present /\ RGt(tpm.val, Zero)
      hasE == options.present /\ options.trailingExit.present
  IN  [kind |-> "levels",
       sl |-> sl,
       tp |-> IF hasT
              THEN Some(IF isLong THEN RAdd(entry, RMul(tpm.val, N))
                                  ELSE RSub(entry, RMul(tpm.val, N)))
              ELSE Undefined,
       trailingExit |-> IF hasE THEN options.trailingExit ELSE Undefined]

\* the fields tp and trailingExit of the result are optional
slTpLevels(entry, N, isLong, options) ==
  LET sl   == IF isLong THEN RSub(entry, RMul(Num(2), N))
                        ELSE RAdd(entry, RMul(Num(2), N))
      tpm  == options.tpMultiple
      hasT == options.present /\ tpm.present /\ RGt(tpm.val, Zero)
      hasE == options.present /\ options.trailingExit.present
  IN  [kind |-> "levels",
       sl |-> sl,
       tp |-> IF hasT
              THEN Some(IF isLong THEN RAdd(entry, RMul(tpm.val, N))
                                  ELSE RSub(entry, RMul(tpm.val, N)))
              ELSE Undefined,
       trailingExit |-> IF hasE THEN options.trailingExit ELSE Undefined]

-----------------------------------------------------------------------------
(* Inputs *)

MaxLen == 3
MaxPeriod == 3
MaxEvalPeriod == 2

\* price strings of the API's candle items: decimal text, and text that
\* Number() does not parse or parses to a non-finite value
RawHighs == { <<"x">>, <<"2">>, <<"3">> }
RawLows == { <<>>, <<"0">>, <<"1">> }
RawCloses == { <<"I", "n", "f", "i", "n", "i", "t", "y">>, <<"1">> }

RawItems ==
  [o : {<<"1">>}, c : RawCloses, h : RawHighs, l : RawLows,
   v : {Some(<<"1">>)}]

CandleSet == { toCandle(item) : item \in RawItems }

CandleSeqs == UNION { [1..k -> CandleSet] : k \in 0..MaxLen }

NoArgs == [n |-> 0]

\* the volatility unit N and the true-breakout threshold of a call
NValues == { Num(1), Num(8) }
Thresholds == { Norm(1, 4), Num(1) }

\* the panel's initial true-breakout threshold, 0.25
DefaultThreshold == Norm(1, 4)

\* one bar for the classifier, and the band values it is compared with
ClassifyPrices == { <<"x">>, <<"1">>, <<"2">>, <<"3">> }

ClassifyCandles ==
  { toCandle(item) :
      item \in [o : {<<"1">>}, c : ClassifyPrices, h : ClassifyPrices,
                l : ClassifyPrices, v : {Some(<<"1">>)}] }

BandValues == { Zero, Num(1), Num(2) }

VolumeFlags == {"undefined", "true", "false"}

\* windows long enough for the volume filter: VolMinBars - 1 bars (one too
\* few) up to VolMinBars + MaxExtraBars bars
MaxExtraBars == 1

VolumeTexts == { <<"0">>, <<"1">>, <<"3">> }
LastVolumeTexts == { <<"0">>, <<"1">>, <<"2">> }

\* a bar before the last one: fixed prices, the volume varies
FillerBar(v) == toCandle([o |-> <<"1">>, c |-> <<"1">>, h |-> <<"2">>,
                          l |-> <<"0">>, v |-> v])

\* the last bar: either low <= close <= high, or a high the normalizer
\* coerces to 0 so that the close lies above the bar's own high
LastBars ==
  { toCandle(item) :
      item \in [o : {<<"1">>}, c : {<<"1">>}, h : {<<"x">>, <<"2">>},
                l : {<<"0">>},
                v : {NoText} \cup { SomeText(t) : t \in LastVolumeTexts }] }

\* the first bar has volume a (or none), the bar before the last has
\* volume c, the bars between them volume b
LongWindow(len, a, b, c, last) ==
  [ k \in 1..len |->
      IF k = len THEN last
      ELSE IF k = 1 THEN FillerBar(a)
      ELSE IF k = len - 1 THEN FillerBar(SomeText(c))
      ELSE FillerBar(SomeText(b)) ]

LongWindows ==
  { LongWindow(len, a, b, c, last) :
      len \in (VolMinBars - 1)..(VolMinBars + MaxExtraBars),
      a \in {NoText} \cup { SomeText(t) : t \in VolumeTexts },
      b \in VolumeTexts, c \in VolumeTexts, last \in LastBars }

\* short windows, the empty one included, with periods from MinPeriod
\* (negative) up and end indices from before the first bar to past the last
MaxEdgeLen == 2
MinPeriod == -1
MaxEdgePeriod == 2

EdgeCandles ==
  { FillerBar(SomeText(<<"1">>)),
    toCandle([o |-> <<"1">>, c |-> <<"3">>, h |-> <<"x">>, l |-> <<"1">>,
              v |-> NoText]) }

EdgeWindows == UNION { [1..k -> EdgeCandles] : k \in 0..MaxEdgeLen }

EdgePeriods == MinPeriod..MaxEdgePeriod

EdgeIndices(cs) == (-2)..(Len(cs) + 1)

\* arguments of positionSize: equity, risk percent, N, price, precision
MaxDecimals == 3
AccountValues == { Num(100), Num(250), Num(10000) }
RiskPcts == { Zero, Norm(1, 2), Num(1), Num(2) }
SizeNValues == { Num(-1), Zero, Norm(1, 2), Num(3), Num(5) }
PriceValues == { Num(-1), Zero, Num(7), Num(100) }

\* arguments of slTpLevels
EntryValues == { Num(7), Num(100) }
LevelNValues == { Norm(1, 2), Num(5) }
TpMultiples == { Undefined, Some(Num(-2)), Some(Zero), Some(Num(4)) }
TrailingExits == { Undefined, Some(Num(90)) }
OptionValues ==
  {NoOptions} \cup
  { Options(m, e) : m \in TpMultiples, e \in TrailingExits }

-----------------------------------------------------------------------------
(* Poll interval persistence of the price page (HyperliquidPrices) *)

\* texts are sequences of characters
PollIntervals ==
  { <<"5", "m">>, <<"1", "5", "m">>, <<"1", "h">>, <<"4", "h">> }

DefaultPollInterval == <<"5", "m">>

\* JSON.stringify of a text that has no character to escape: the text
\* between two double quotes
JSONStringify(text) == <<"\"">> \o text \o <<"\"">>

\* localStorage.getItem(POLL_INTERVAL_STORAGE_KEY): the stored text, or
\* null when the key is absent
getItem(store) == store

\* works = FALSE: the browser refuses access to localStorage and the call
\* throws, which the function catches
loadPollIntervalFromStorage(hasWindow, works, store) ==
  IF ~hasWindow THEN DefaultPollInterval
  ELSE IF ~works THEN DefaultPollInterval
  ELSE LET raw == getItem(store)
       IN  IF raw.present /\ raw.val \in PollIntervals THEN raw.val
           ELSE DefaultPollInterval

\* the store after savePollIntervalToStorage(interval)
savePollIntervalToStorage(works, store, interval) ==
  IF works THEN SomeText(JSONStringify(interval)) ELSE store

\* what the key may hold when the page is first opened: nothing, an
\* interval's bare text, a text that is no interval, or what an earlier
\* visit saved
StoredTexts ==
  { NoText, SomeText(<<"1", "h">>), SomeText(<<"x">>),
    SomeText(JSONStringify(<<"4", "h">>)) }

-----------------------------------------------------------------------------
(* The price page's WebSocket and its reconnection (HyperliquidPrices) *)

BaseDelayMs == 1000
MaxDelayMs == 30000

RECURSIVE Pow2(_)
Pow2(k) == IF k <= 0 THEN 1 ELSE 2 * Pow2(k - 1)

Min2(a, b) == IF a < b THEN a ELSE b

\* the delay without the cap
reconnectDelay_uncapped(attempts) == BaseDelayMs * Pow2(attempts)

\* Math.min(1000 * 2 ** reconnectAttempts.current, 30000)
reconnectDelay(attempts) == Min2(BaseDelayMs * Pow2(attempts), MaxDelayMs)

\* the mount effect has just run: its fetches are in flight, nothing else
\* exists yet
SocketIdle ==
  /\ cancelled = FALSE
  /\ loading = TRUE
  /\ sockets = << >>
  /\ wsRef = 0
  /\ wsConnected = FALSE
  /\ timers = {}
  /\ timerLog = << >>
  /\ reconnectTimeoutRef = 0
  /\ reconnectAttempts = 0
  /\ closesSinceOpen = 0
  /\ socketsAtCleanup = -1

\* no timer set: a timer is named by its chain and its number in the chain
NoTimer == [chain |-> 0, gen |-> 0]

\* the poll effect has not run
PollIdle ==
  /\ pollChains = << >>
  /\ pollTimeoutRef = NoTimer
  /\ activeChain = 0

\* a panel before its first fetch
PanelIdle ==
  /\ fetches = << >>
  /\ candlesOf = 0
  /\ candleError = 0
  /\ panelLoading = TRUE

\* no page is open: the state of the page while a core call is studied
PageNotOpened ==
  /\ SocketIdle
  /\ PollIdle
  /\ PanelIdle
  /\ storage = NoText
  /\ pollInterval = DefaultPollInterval
  /\ phase = "closed"
  /\ lastSaved = NoText
  /\ storageWorks = TRUE

-----------------------------------------------------------------------------
(* The state machine *)

Init ==
  /\ candles \in CandleSeqs
  /\ pc = "idle"
  /\ op = "none"
  /\ args = NoArgs
  /\ result = Null
  /\ trace = << >>
  /\ PageNotOpened

CallDonchianBands ==
  /\ pc = "idle"
  /\ \E n \in 1..MaxPeriod, i \in 0..(Len(candles) - 1) :
       /\ args' = [n |-> n, endIndex |-> i]
       /\ result' = donchianBands(candles, n, i)
  /\ op' = "donchianBands"
  /\ pc' = "done"
  /\ UNCHANGED <<candles, trace, uiVars>>

CallTrueRange ==
  /\ pc = "idle"
  /\ args' = NoArgs
  /\ result' = [kind |-> "array", items |-> trueRange(candles)]
  /\ op' = "trueRange"
  /\ pc' = "done"
  /\ UNCHANGED <<candles, trace, uiVars>>

CallAtr ==
  /\ pc = "idle"
  /\ \E n \in 1..MaxPeriod :
       /\ args' = [n |-> n]
       /\ result' = [kind |-> "array", items |-> atr(candles, n)]
  /\ op' = "atr"
  /\ pc' = "done"
  /\ UNCHANGED <<candles, trace, uiVars>>

CallEvaluationTag ==
  /\ pc = "idle"
  /\ \E lenEntry \in 1..MaxEvalPeriod, len55 \in 1..MaxEvalPeriod,
        N \in NValues, threshold \in {DefaultThreshold},
        useVolumeFilter \in BOOLEAN :
       \* lenExit is a parameter evaluationTag never reads
       /\ args' = [lenEntry |-> lenEntry, lenExit |-> lenEntry, len55 |-> len55,
                   N |-> N, threshold |-> threshold,
                   useVolumeFilter |-> useVolumeFilter]
       /\ result' = evaluationTag(candles, lenEntry, lenEntry, len55, N, threshold,
                                  useVolumeFilter)
       /\ trace' = evaluationTagCalls(candles, lenEntry, lenEntry, len55, N,
                                      threshold, useVolumeFilter)
  /\ op' = "evaluationTag"
  /\ pc' = "done"
  /\ UNCHANGED <<candles, uiVars>>

CallBreakoutSignal ==
  /\ pc = "idle"
  /\ Len(candles) >= 1
  /\ \E upper \in BandValues, lower \in BandValues :
       LET close == candles[Len(candles)].c
       IN  /\ args' = [close |-> close, upper |-> upper, lower |-> lower]
           /\ result' = [kind |-> "direction",
                         value |-> breakoutSignal(close, upper, lower)]
  /\ op' = "breakoutSignal"
  /\ pc' = "done"
  /\ UNCHANGED <<candles, trace, uiVars>>

\* Bands, true range and ATR of a candle window
Next ==
  \/ CallDonchianBands
  \/ CallTrueRange
  \/ CallAtr

Spec == Init /\ [][Next]_vars

\* Direction and evaluation of a candle window
NextEval ==
  \/ CallBreakoutSignal
  \/ CallEvaluationTag

SpecEval == Init /\ [][NextEval]_vars

\* The classifier applied to one bar and free band values
InitClassify ==
  /\ candles \in { <<cd>> : cd \in ClassifyCandles }
  /\ pc = "idle"
  /\ op = "none"
  /\ args = NoArgs
  /\ result = Null
  /\ trace = << >>
  /\ PageNotOpened

CallBreakoutType ==
  /\ pc = "idle"
  /\ \E upper \in BandValues, lower \in BandValues, N \in NValues,
        threshold \in Thresholds, vol \in VolumeFlags :
       /\ args' = [candle |-> candles[1], upper |-> upper, lower |-> lower,
                   N |-> N, threshold |-> threshold, volumeAboveAvg |-> vol]
       /\ result' = [kind |-> "quality",
                     value |-> breakoutType(candles[1], upper, lower, N, threshold, vol)]
  /\ op' = "breakoutType"
  /\ pc' = "done"
  /\ UNCHANGED <<candles, trace, uiVars>>

NextClassify ==
  \/ CallBreakoutType

SpecClassify == InitClassify /\ [][NextClassify]_vars

\* Evaluation of a window long enough for the volume filter
InitVolume ==
  /\ candles \in LongWindows
  /\ pc = "idle"
  /\ op = "none"
  /\ args = NoArgs
  /\ result = Null
  /\ trace = << >>
  /\ PageNotOpened

NextVolume ==
  \/ CallEvaluationTag

SpecVolume == InitVolume /\ [][NextVolume]_vars

\* Position size and levels of an entry
InitRisk ==
  /\ candles = << >>
  /\ pc = "idle"
  /\ op = "none"
  /\ args = NoArgs
  /\ result = Null
  /\ trace = << >>
  /\ PageNotOpened

CallPositionSize ==
  /\ pc = "idle"
  /\ \E accountUsd \in AccountValues, riskPct \in RiskPcts, N \in SizeNValues,
        price \in PriceValues, szDecimals \in 0..MaxDecimals :
       /\ args' = [accountUsd |-> accountUsd, riskPct |-> riskPct, N |-> N,
                   price |-> price, szDecimals |-> szDecimals]
       /\ result' = [kind |-> "number",
                     value |-> positionSize(accountUsd, riskPct, N, price,
                                            szDecimals)]
  /\ op' = "positionSize"
  /\ pc' = "done"
  /\ UNCHANGED <<candles, trace, uiVars>>

CallSlTpLevels ==
  /\ pc = "idle"
  /\ \E entry \in EntryValues, N \in LevelNValues, isLong \in BOOLEAN,
        options \in OptionValues :
       /\ args' = [entry |-> entry, N |-> N, isLong |-> isLong,
                   options |-> options]
       /\ result' = slTpLevels(entry, N, isLong, options)
  /\ op' = "slTpLevels"
  /\ pc' = "done"
  /\ UNCHANGED <<candles, trace, uiVars>>

NextRisk ==
  \/ CallPositionSize
  \/ CallSlTpLevels

SpecRisk == InitRisk /\ [][NextRisk]_vars

\* The core functions on any window, period and end index
InitTotal ==
  /\ candles \in EdgeWindows
  /\ pc = "idle"
  /\ op = "none"
  /\ args = NoArgs
  /\ result = Null
  /\ trace = << >>
  /\ PageNotOpened

CallDonchianBandsAnywhere ==
  /\ pc = "idle"
  /\ \E n \in EdgePeriods, i \in EdgeIndices(candles) :
       /\ args' = [n |-> n, endIndex |-> i]
       /\ result' = donchianBands(candles, n, i)
  /\ op' = "donchianBands"
  /\ pc' = "done"
  /\ UNCHANGED <<candles, trace, uiVars>>

CallAtrAnyPeriod ==
  /\ pc = "idle"
  /\ \E n \in EdgePeriods :
       /\ args' = [n |-> n]
       /\ result' = [kind |-> "array", items |-> atr(candles, n)]
  /\ op' = "atr"
  /\ pc' = "done"
  /\ UNCHANGED <<candles, trace, uiVars>>

CallEvaluationTagAnyPeriod ==
  /\ pc = "idle"
  /\ \E lenEntry \in EdgePeriods, len55 \in EdgePeriods, N \in NValues,
        useVolumeFilter \in BOOLEAN :
       /\ args' = [lenEntry |-> lenEntry, lenExit |-> lenEntry, len55 |-> len55,
                   N |-> N, threshold |-> DefaultThreshold,
                   useVolumeFilter |-> useVolumeFilter]
       /\ result' = evaluationTag(candles, lenEntry, lenEntry, len55, N,
                                  DefaultThreshold, useVolumeFilter)
       /\ trace' = evaluationTagCalls(candles, lenEntry, lenEntry, len55, N,
                                      DefaultThreshold, useVolumeFilter)
  /\ op' = "evaluationTag"
  /\ pc' = "done"
  /\ UNCHANGED <<candles, uiVars>>

CallTrailingExitLevel ==
  /\ pc = "idle"
  /\ \E exitPeriod \in EdgePeriods, isLong \in BOOLEAN,
        endIndex \in EdgeIndices(candles) :
       /\ args' = [exitPeriod |-> exitPeriod, isLong |-> isLong,
                   endIndex |-> endIndex]
       /\ result' = trailingExitLevel(candles, exitPeriod, isLong, endIndex)
  /\ op' = "trailingExitLevel"
  /\ pc' = "done"
  /\ UNCHANGED <<candles, trace, uiVars>>

NextTotal ==
  \/ CallDonchianBandsAnywhere
  \/ CallAtrAnyPeriod
  \/ CallEvaluationTagAnyPeriod
  \/ CallTrailingExitLevel
  \/ CallPositionSize
  \/ CallSlTpLevels

SpecTotal == InitTotal /\ [][NextTotal]_vars

\* The price page and its stored poll interval
InitStorage ==
  /\ candles = << >>
  /\ pc = "idle"
  /\ op = "none"
  /\ args = NoArgs
  /\ result = Null
  /\ trace = << >>
  /\ storage \in StoredTexts
  /\ storageWorks \in BOOLEAN
  /\ pollInterval = DefaultPollInterval
  /\ phase = "closed"
  /\ lastSaved = NoText
  /\ SocketIdle
  /\ PollIdle
  /\ PanelIdle

\* the component mounts: useState's initializer loads the interval
OpenPage ==
  /\ phase = "closed"
  /\ pollInterval' = loadPollIntervalFromStorage(TRUE, storageWorks, storage)
  /\ phase' = "loaded"
  /\ UNCHANGED <<storage, lastSaved, storageWorks, coreVars, wsVars, pollVars, panelVars>>

\* the effect on [pollInterval] runs after the mount and after every change
SaveEffect ==
  /\ phase \in {"loaded", "changed"}
  /\ storage' = savePollIntervalToStorage(storageWorks, storage, pollInterval)
  /\ lastSaved' = SomeText(pollInterval)
  /\ phase' = "ready"
  /\ UNCHANGED <<pollInterval, storageWorks, coreVars, wsVars, pollVars, panelVars>>

\* a click on one of the interval buttons
SetPollInterval ==
  /\ phase = "ready"
  /\ \E interval \in PollIntervals \ {pollInterval} :
       pollInterval' = interval
  /\ phase' = "changed"
  /\ UNCHANGED <<storage, lastSaved, storageWorks, coreVars, wsVars, pollVars, panelVars>>

\* the page is closed or reloaded: the component's state is gone, the
\* store stays
ClosePage ==
  /\ phase = "ready"
  /\ phase' = "closed"
  /\ pollInterval' = DefaultPollInterval
  /\ UNCHANGED <<storage, lastSaved, storageWorks, coreVars, wsVars, pollVars, panelVars>>

NextStorage ==
  \/ OpenPage
  \/ SaveEffect
  \/ SetPollInterval
  \/ ClosePage

SpecStorage == InitStorage /\ [][NextStorage]_vars

\* The price page's WebSocket
MaxSockets == 7

InitSocket ==
  /\ candles = << >>
  /\ pc = "idle"
  /\ op = "none"
  /\ args = NoArgs
  /\ result = Null
  /\ trace = << >>
  /\ storage = NoText
  /\ storageWorks = TRUE
  /\ pollInterval = DefaultPollInterval
  /\ phase = "ready"
  /\ lastSaved = NoText
  /\ SocketIdle
  /\ PollIdle
  /\ PanelIdle

\* connectWs: nothing when the socket wsRef points to is open; otherwise a
\* new socket, which wsRef then points to
ConnectWs ==
  IF wsRef # 0 /\ sockets[wsRef] = "open"
  THEN UNCHANGED <<sockets, wsRef>>
  ELSE /\ sockets' = Append(sockets, "connecting")
       /\ wsRef' = Len(sockets) + 1

CanConnect ==
  \/ wsRef # 0 /\ sockets[wsRef] = "open"
  \/ Len(sockets) < MaxSockets

\* the mount effect's two fetches settle: after the cleanup nothing
\* happens; otherwise connectWs() when both succeeded, and loading ends
MountFetchSettles ==
  /\ loading
  /\ \E ok \in BOOLEAN :
       IF cancelled THEN UNCHANGED <<sockets, wsRef, loading>>
       ELSE /\ loading' = FALSE
            /\ IF ok THEN CanConnect /\ ConnectWs
                     ELSE UNCHANGED <<sockets, wsRef>>
  /\ UNCHANGED <<cancelled, wsConnected, timers, timerLog,
                 reconnectTimeoutRef, reconnectAttempts, closesSinceOpen,
                 socketsAtCleanup, coreVars, storeVars, pollVars, panelVars>>

\* ws.onopen of socket id
SocketOpens ==
  /\ \E id \in 1..Len(sockets) :
       /\ sockets[id] = "connecting"
       /\ sockets' = [sockets EXCEPT ![id] = "open"]
  /\ wsConnected' = TRUE
  /\ reconnectAttempts' = 0
  /\ closesSinceOpen' = 0
  /\ UNCHANGED <<cancelled, loading, wsRef, timers, timerLog,
                 reconnectTimeoutRef, socketsAtCleanup, coreVars, storeVars,
                 pollVars, panelVars>>

\* ws.onclose of socket id: the connection failed, was lost, or was closed
\* by close(); the handler sets a reconnect timer
SocketCloses ==
  /\ \E id \in 1..Len(sockets) :
       /\ sockets[id] \in {"connecting", "open", "closing"}
       /\ sockets' = [sockets EXCEPT ![id] = "closed"]
  /\ wsConnected' = FALSE
  /\ wsRef' = 0
  /\ timerLog' = Append(timerLog,
                        [k |-> closesSinceOpen,
                         delay |-> reconnectDelay(reconnectAttempts)])
  /\ reconnectAttempts' = reconnectAttempts + 1
  /\ closesSinceOpen' = closesSinceOpen + 1
  /\ timers' = timers \cup {Len(timerLog) + 1}
  /\ reconnectTimeoutRef' = Len(timerLog) + 1
  /\ UNCHANGED <<cancelled, loading, socketsAtCleanup, coreVars, storeVars,
                 pollVars, panelVars>>

\* a reconnect timer fires: connectWs()
ReconnectTimerFires ==
  /\ CanConnect
  /\ \E t \in timers : timers' = timers \ {t}
  /\ ConnectWs
  /\ UNCHANGED <<cancelled, loading, wsConnected, timerLog,
                 reconnectTimeoutRef, reconnectAttempts, closesSinceOpen,
                 socketsAtCleanup, coreVars, storeVars, pollVars, panelVars>>

\* the mount effect's cleanup (the page is left)
MountCleanup ==
  /\ ~cancelled
  /\ cancelled' = TRUE
  /\ timers' = timers \ {reconnectTimeoutRef}
  /\ reconnectTimeoutRef' = 0
  /\ IF wsRef # 0
     THEN sockets' = [sockets EXCEPT ![wsRef] = "closing"]
     ELSE UNCHANGED sockets
  /\ wsRef' = 0
  /\ wsConnected' = FALSE
  /\ socketsAtCleanup' = Len(sockets)
  /\ UNCHANGED <<loading, timerLog, reconnectAttempts, closesSinceOpen,
                 coreVars, storeVars, pollVars, panelVars>>

NextSocket ==
  \/ MountFetchSettles
  \/ SocketOpens
  \/ SocketCloses
  \/ ReconnectTimerFires
  \/ MountCleanup

SpecSocket == InitSocket /\ [][NextSocket]_vars

\* The price page's poll timers
MaxChains == 3
MaxPollsPerChain == 3

\* a chain whose timer has just been set by schedule()
NewChain(interval) == [interval |-> interval, state |-> "timer", gen |-> 1]

\* the poll effect has run once, loading being over
InitPoll ==
  /\ candles = << >>
  /\ pc = "idle"
  /\ op = "none"
  /\ args = NoArgs
  /\ result = Null
  /\ trace = << >>
  /\ storage = NoText
  /\ storageWorks = TRUE
  /\ pollInterval = DefaultPollInterval
  /\ phase = "ready"
  /\ lastSaved = NoText
  /\ SocketIdle
  /\ PanelIdle
  /\ pollChains = << NewChain(pollInterval) >>
  /\ pollTimeoutRef = [chain |-> 1, gen |-> 1]
  /\ activeChain = 1

\* the effect's cleanup: clearTimeout(pollTimeoutRef.current), which stops
\* the timer the ref names if that timer has not fired yet
ClearPollTimeout(chains, ref) ==
  IF /\ ref.chain # 0
     /\ chains[ref.chain].state = "timer"
     /\ chains[ref.chain].gen = ref.gen
  THEN [chains EXCEPT ![ref.chain].state = "cleared"]
  ELSE chains

\* a chain's timer fires: its callback starts the fetch and awaits it
PollTimerFires ==
  /\ \E c \in 1..Len(pollChains) :
       /\ pollChains[c].state = "timer"
       /\ pollChains' = [pollChains EXCEPT ![c].state = "fetching"]
  /\ UNCHANGED <<pollTimeoutRef, activeChain, coreVars, storeVars, wsVars,
                 panelVars>>

\* the fetch of a chain's callback settles (with data or with an error):
\* the callback goes on and calls schedule()
PollFetchSettles ==
  /\ \E c \in 1..Len(pollChains) :
       /\ pollChains[c].state = "fetching"
       /\ pollChains[c].gen < MaxPollsPerChain
       /\ pollChains' = [pollChains EXCEPT ![c].state = "timer",
                                           ![c].gen = @ + 1]
       /\ pollTimeoutRef' = [chain |-> c, gen |-> pollChains[c].gen + 1]
  /\ UNCHANGED <<activeChain, coreVars, storeVars, wsVars, panelVars>>

\* a click on another interval: the interval is saved, the poll effect is
\* cleaned up and runs again with the new interval
PollIntervalChanged ==
  /\ activeChain # 0
  /\ Len(pollChains) < MaxChains
  /\ \E interval \in PollIntervals \ {pollInterval} :
       /\ pollInterval' = interval
       /\ storage' = savePollIntervalToStorage(storageWorks, storage, interval)
       /\ lastSaved' = SomeText(interval)
       /\ pollChains' = Append(ClearPollTimeout(pollChains, pollTimeoutRef),
                               NewChain(interval))
  /\ pollTimeoutRef' = [chain |-> Len(pollChains) + 1, gen |-> 1]
  /\ activeChain' = Len(pollChains) + 1
  /\ UNCHANGED <<phase, storageWorks, coreVars, wsVars, panelVars>>

\* the page is left: the poll effect is cleaned up
PollUnmount ==
  /\ activeChain # 0
  /\ pollChains' = ClearPollTimeout(pollChains, pollTimeoutRef)
  /\ pollTimeoutRef' = NoTimer
  /\ activeChain' = 0
  /\ UNCHANGED <<coreVars, storeVars, wsVars, panelVars>>

NextPoll ==
  \/ PollTimerFires
  \/ PollFetchSettles
  \/ PollIntervalChanged
  \/ PollUnmount

SpecPoll == InitPoll /\ [][NextPoll]_vars

\* A Turtle panel's candle fetches
MaxFetches == 3

\* a fetch that fetchCandlesForSymbol has started for an interval
NewFetch(interval) == [interval |-> interval, state |-> "inflight"]

\* the panel has mounted and its effect has started the first fetch
InitPanel ==
  /\ candles = << >>
  /\ pc = "idle"
  /\ op = "none"
  /\ args = NoArgs
  /\ result = Null
  /\ trace = << >>
  /\ storage = NoText
  /\ storageWorks = TRUE
  /\ pollInterval = DefaultPollInterval
  /\ phase = "ready"
  /\ lastSaved = NoText
  /\ SocketIdle
  /\ PollIdle
  /\ fetches = << NewFetch(pollInterval) >>
  /\ candlesOf = 0
  /\ candleError = 0
  /\ panelLoading = TRUE

\* the page's interval changes: the panel's effect runs
\* fetchCandlesForSymbol with the new interval
PanelIntervalChanged ==
  /\ Len(fetches) < MaxFetches
  /\ \E interval \in PollIntervals \ {pollInterval} :
       /\ pollInterval' = interval
       /\ storage' = savePollIntervalToStorage(storageWorks, storage, interval)
       /\ lastSaved' = SomeText(interval)
       /\ fetches' = Append(fetches, NewFetch(interval))
  /\ panelLoading' = TRUE
  /\ candleError' = 0
  /\ UNCHANGED <<candlesOf, phase, storageWorks, coreVars, wsVars, pollVars>>

\* refreshTrigger (the page's lastUpdate) changes: the effect fetches again
PanelRefreshTriggered ==
  /\ Len(fetches) < MaxFetches
  /\ fetches' = Append(fetches, NewFetch(pollInterval))
  /\ panelLoading' = TRUE
  /\ candleError' = 0
  /\ UNCHANGED <<candlesOf, coreVars, storeVars, wsVars, pollVars>>

\* a fetch settles: with 75 bars or more (ok), with fewer (short), or with
\* an error (failed, the stored list is then that fetch's empty list)
PanelFetchSettles ==
  /\ \E id \in 1..Len(fetches), outcome \in {"ok", "short", "failed"} :
       /\ fetches[id].state = "inflight"
       /\ fetches' = [fetches EXCEPT ![id].state = outcome]
       /\ candlesOf' = id
       /\ candleError' = IF outcome = "ok" THEN candleError ELSE id
  /\ panelLoading' = FALSE
  /\ UNCHANGED <<coreVars, storeVars, wsVars, pollVars>>

NextPanel ==
  \/ PanelIntervalChanged
  \/ PanelRefreshTriggered
  \/ PanelFetchSettles

SpecPanel == InitPanel /\ [][NextPanel]_vars

-----------------------------------------------------------------------------
(* Properties *)

\* the bar indices (0-based) of the n bars ending at i
Window(n, i) == { k \in 0..(Len(candles) - 1) : i - n + 1 <= k /\ k <= i }

\* the largest and the smallest element of a non-empty set of numbers
Highest(S) == CHOOSE x \in S : \A y \in S : RLe(y, x)
Lowest(S) == CHOOSE x \in S : \A y \in S : RLe(x, y)

HighestHigh(n, i) == Highest({ candles[k + 1].h : k \in Window(n, i) })
LowestLow(n, i) == Lowest({ candles[k + 1].l : k \in Window(n, i) })

\* C1: donchianBands(candles, n, i), for n >= 1 and 0 <= i < candles.length,
\* returns null if and only if fewer than n bars end at i (i + 1 < n).
C1_NullIffTooFewBars ==
  op = "donchianBands" =>
    (result.kind = "null" <=> args.endIndex + 1 < args.n)

C1_Witness ==
  /\ op = "donchianBands"
  /\ args.endIndex >= 1
  /\ args.endIndex + 1 < args.n
  /\ result.kind = "null"

\* C2: when donchianBands returns bands, upper is the maximum high and lower
\* the minimum low over exactly the bars i-n+1 .. i, and middle is
\* (upper + lower) / 2.
C2_BandsAreWindowExtremes ==
  (op = "donchianBands" /\ result.kind = "bands") =>
    /\ result.upper = HighestHigh(args.n, args.endIndex)
    /\ result.lower = LowestLow(args.n, args.endIndex)
    /\ RMul(result.middle, Num(2)) = RAdd(result.upper, result.lower)

\* a window of two or more bars that is not the whole sequence, with a bar
\* before it above its highest high and a bar after it below its lowest low
C2_Witness ==
  /\ op = "donchianBands"
  /\ result.kind = "bands"
  /\ args.n >= 2
  /\ args.endIndex = Len(candles) - 1
  /\ Len(candles) > args.n
  /\ RGt(candles[1].h, result.upper)
  /\ RLt(candles[1].l, result.lower)
  /\ RLt(result.lower, result.middle) /\ RLt(result.middle, result.upper)

\* C3: the bands donchianBands returns satisfy lower <= middle <= upper, for
\* every candle sequence the normalizer can produce.
C3_UpperAtLeastLower ==
  (op = "donchianBands" /\ result.kind = "bands") =>
    /\ RGe(result.upper, result.lower)
    /\ RLe(result.lower, result.middle)
    /\ RLe(result.middle, result.upper)

\* C4: trueRange returns one value per candle, TR[0] = high[0] - low[0] and,
\* for i > 0, TR[i] = max(high[i] - low[i], |high[i] - close[i-1]|,
\* |low[i] - close[i-1]|).
C4_TrueRangeFormula ==
  op = "trueRange" =>
    /\ Len(result.items) = Len(candles)
    /\ \A i \in 0..(Len(candles) - 1) :
         LET h  == candles[i + 1].h
             l  == candles[i + 1].l
             tr == result.items[i + 1]
         IN  IF i = 0 THEN tr = RSub(h, l)
             ELSE LET pc0 == candles[i].c
                      S   == { RSub(h, l), RAbs(RSub(h, pc0)), RAbs(RSub(l, pc0)) }
                  IN  tr = Highest(S)

\* the sum of the elements lo .. hi (1-based) of a sequence of numbers
RECURSIVE SumOf(_, _, _)
SumOf(seq, lo, hi) ==
  IF hi < lo THEN Zero ELSE RAdd(SumOf(seq, lo, hi - 1), seq[hi])

\* C5: atr(candles, n), n >= 1, is empty for fewer than n candles; otherwise
\* it has one position per candle, the positions before n-1 are absent,
\* ATR[n-1] is the mean of TR[0..n-1] and ATR[i] = (ATR[i-1]*(n-1) + TR[i]) / n
\* for every i >= n.
C5_AtrWilder ==
  op = "atr" =>
    LET n   == args.n
        out == result.items
        tr  == trueRange(candles)
    IN  IF Len(candles) < n THEN out = <<>>
        ELSE /\ Len(out) = Len(candles)
             /\ \A i \in 0..(n - 2) : ~out[i + 1].present
             /\ \A i \in (n - 1)..(Len(out) - 1) : out[i + 1].present
             /\ RMul(out[n].val, Num(n)) = SumOf(tr, 1, n)
             /\ \A i \in n..(Len(out) - 1) :
                  RMul(out[i + 1].val, Num(n))
                    = RAdd(RMul(out[i].val, Num(n - 1)), tr[i + 1])

\* a period of two or more, a recurrence step taken, and a last value that is
\* neither the seed nor the last true range
C5_Witness ==
  /\ op = "atr"
  /\ args.n >= 2
  /\ Len(candles) > args.n
  /\ Len(result.items) = Len(candles)
  /\ result.items[Len(candles)].val # result.items[args.n].val
  /\ result.items[Len(candles)].val # trueRange(candles)[Len(candles)]

\* C6: the breakout direction is long if close > upper, short if close <
\* lower, none otherwise, whatever N, threshold, volume, high and low are;
\* evaluationTag takes close from the last bar and the bands of the entry
\* period ending at it.
C6_Direction ==
  /\ op = "breakoutSignal" =>
       result.value = (IF RGt(args.close, args.upper) THEN "long"
                       ELSE IF RLt(args.close, args.lower) THEN "short"
                       ELSE "none")
  /\ (op = "evaluationTag" /\ result.kind = "evaluation") =>
       LET lastIdx == Len(candles) - 1
           close   == candles[lastIdx + 1].c
           upper   == HighestHigh(args.lenEntry, lastIdx)
           lower   == LowestLow(args.lenEntry, lastIdx)
       IN  result.direction = (IF RGt(close, upper) THEN "long"
                               ELSE IF RLt(close, lower) THEN "short"
                               ELSE "none")

\* an evaluation whose last close is below the entry period's lower band
C6_Witness ==
  /\ op = "evaluationTag"
  /\ result.kind = "evaluation"
  /\ args.lenEntry >= 2
  /\ args.N = Num(8)
  /\ args.useVolumeFilter
  /\ result.direction = "short"

\* C7: for close > upper, breakoutType is true exactly when close >= upper +
\* t*N and the volume input is not false, and sub otherwise; for high > upper
\* and close <= upper it is sub.
C7_LongQuality ==
  op = "breakoutType" =>
    LET c      == args.candle.c
        h      == args.candle.h
        target == RAdd(args.upper, RMul(args.threshold, args.N))
    IN  /\ RGt(c, args.upper) =>
             /\ result.value = "true"
                  <=> (RGe(c, target) /\ args.volumeAboveAvg # "false")
             /\ result.value \in {"true", "sub"}
        /\ (RGt(h, args.upper) /\ RLe(c, args.upper)) => result.value = "sub"

\* a close beyond the target that volume alone keeps from a full entry
C7_Witness ==
  /\ op = "breakoutType"
  /\ RGe(args.candle.c, RAdd(args.upper, RMul(args.threshold, args.N)))
  /\ RGt(args.candle.c, args.upper)
  /\ args.volumeAboveAvg = "false"
  /\ result.value = "sub"

\* the short case of the classifier, for a call's arguments and result
ShortQuality(a, value) ==
  LET c      == a.candle.c
      l      == a.candle.l
      target == RSub(a.lower, RMul(a.threshold, a.N))
  IN  /\ RLt(c, a.lower) =>
           /\ value = "true" <=> (RLe(c, target) /\ a.volumeAboveAvg # "false")
           /\ value \in {"true", "sub"}
      /\ (RLt(l, a.lower) /\ RGe(c, a.lower)) => value = "sub"

\* C8 (as claimed): for every candle with close < lower, breakoutType is true
\* exactly when close <= lower - t*N and the volume input is not false, and
\* sub otherwise; for every candle with low < lower and close >= lower it is
\* sub.
C8_ShortMirrorsLong ==
  op = "breakoutType" => ShortQuality(args, result.value)

\* C8 (amended): the same, for every candle on which no long-branch check
\* fires, that is with close <= upper and high <= upper.
C8_ShortMirrorsLongAfterLongChecks ==
  (op = "breakoutType"
     /\ RLe(args.candle.c, args.upper) /\ RLe(args.candle.h, args.upper)) =>
    ShortQuality(args, result.value)

\* a full short entry, and no long-branch check fired
C8_Witness ==
  /\ op = "breakoutType"
  /\ RLe(args.candle.h, args.upper)
  /\ RLt(args.candle.c, args.lower)
  /\ RLt(args.candle.l, args.candle.c)
  /\ args.volumeAboveAvg = "undefined"
  /\ result.value = "true"

\* C9: breakoutType is none whenever low, close and high all lie within
\* [lower, upper], for every N, threshold and volume input.
C9_NoneInsideBands ==
  op = "breakoutType" =>
    LET inside(x) == RLe(args.lower, x) /\ RLe(x, args.upper)
    IN  (inside(args.candle.l) /\ inside(args.candle.c) /\ inside(args.candle.h))
          => result.value = "none"

\* a bar that touches both bands without crossing either
C9_Witness ==
  /\ op = "breakoutType"
  /\ args.candle.l = args.lower
  /\ args.candle.h = args.upper
  /\ RLt(args.lower, args.upper)
  /\ RLe(args.candle.l, args.candle.c) /\ RLe(args.candle.c, args.candle.h)
  /\ result.value = "none"

\* C10: in an evaluation, for direction long the strength is strong if the
\* last close exceeds the entry-period and the confirmation-period upper
\* band, medium if it exceeds the confirmation upper only, weak if it exceeds
\* the entry upper only, else none; short mirrors this with the lower bands;
\* direction none gives strength none.
C10_Strength ==
  (op = "evaluationTag" /\ result.kind = "evaluation") =>
    LET lastIdx == Len(candles) - 1
        close   == candles[lastIdx + 1].c
        overE   == IF result.direction = "long"
                   THEN RGt(close, HighestHigh(args.lenEntry, lastIdx))
                   ELSE RLt(close, LowestLow(args.lenEntry, lastIdx))
        overC   == IF result.direction = "long"
                   THEN RGt(close, HighestHigh(args.len55, lastIdx))
                   ELSE RLt(close, LowestLow(args.len55, lastIdx))
    IN  IF result.direction = "none" THEN result.strength = "none"
        ELSE /\ (overE /\ overC) => result.strength = "strong"
             /\ (overC /\ ~overE) => result.strength = "medium"
             /\ (overE /\ ~overC) => result.strength = "weak"
             /\ (~overE /\ ~overC) => result.strength = "none"

\* a long evaluation that only the entry period confirms
C10_Witness ==
  /\ op = "evaluationTag"
  /\ result.kind = "evaluation"
  /\ args.lenEntry < args.len55
  /\ result.direction = "long"
  /\ result.strength = "weak"

\* C11: evaluationTag returns null whenever the window has fewer than
\* len55 + 1 bars (the confirmation period plus one), and in that case it
\* has read no candle and has computed no bands.
C11_NullBeforeAnyRead ==
  (op = "evaluationTag" /\ Len(candles) < args.len55 + 1) =>
    /\ result.kind = "null"
    /\ \A k \in 1..Len(trace) :
         trace[k].fn \notin {"candles[]", "donchianBands"}

\* a window long enough for the entry bands but one bar short of the
\* confirmation period plus one
C11_Witness ==
  /\ op = "evaluationTag"
  /\ Len(candles) >= 1
  /\ args.lenEntry <= Len(candles)
  /\ Len(candles) = args.len55
  /\ result.kind = "null"
  /\ trace = << >>

\* the volume flag evaluationTag passed to breakoutType
PassedVolumeFlag == trace[Len(trace)].vol

\* the last bar and the VolLookback bars before it all carry a volume
HasVolumeBars ==
  /\ Len(candles) >= VolMinBars
  /\ \A k \in (Len(candles) - VolLookback)..Len(candles) : candles[k].v.present

\* the mean volume of the VolLookback bars immediately before the last bar
PrecedingMeanVolume ==
  RDiv(SumOf([k \in 1..Len(candles) |->
                IF candles[k].v.present THEN candles[k].v.val ELSE Zero],
             Len(candles) - VolLookback, Len(candles) - 1),
       Num(VolLookback))

LastVolumeOverMean == RDiv(candles[Len(candles)].v.val, PrecedingMeanVolume)

\* a non-confirming flag never yields quality true; with the filter
\* disabled the flag is undefined
VolumeFlagUse ==
  /\ (PassedVolumeFlag = "false" => result.breakoutType # "true")
  /\ (~args.useVolumeFilter => PassedVolumeFlag = "undefined")

\* C12 as stated: with the volume filter enabled and 21 bars with volume,
\* the ratio is the last bar's volume divided by the mean volume of the 20
\* bars before it; a ratio >= 1 is passed on as confirming, anything else as
\* non-confirming; a non-confirming flag never gives quality true; with the
\* filter disabled the flag is undefined.
C12_VolumeRatio ==
  (op = "evaluationTag" /\ result.kind = "evaluation") =>
    /\ (args.useVolumeFilter /\ HasVolumeBars) =>
          PassedVolumeFlag =
            IF RGe(LastVolumeOverMean, Num(1)) THEN "true" ELSE "false"
    /\ VolumeFlagUse

\* C12, amended: the ratio is the last bar's volume divided by the mean of
\* the 20 preceding volumes when that mean is positive, and 1 (confirming)
\* when the mean is not positive; a ratio >= 1 is passed on as confirming, a
\* ratio < 1 as non-confirming; a non-confirming flag never gives quality
\* true; with the filter disabled the flag is undefined.
C12_VolumeRatioOfPositiveMean ==
  (op = "evaluationTag" /\ result.kind = "evaluation") =>
    /\ (args.useVolumeFilter /\ HasVolumeBars) =>
          PassedVolumeFlag =
            IF RGt(PrecedingMeanVolume, Zero)
            THEN IF RGe(LastVolumeOverMean, Num(1)) THEN "true" ELSE "false"
            ELSE "true"
    /\ VolumeFlagUse

\* a breakout close beyond the target whose volume is below the mean of the
\* 20 bars before it: the flag is false and the quality is sub
C12_Witness ==
  /\ op = "evaluationTag"
  /\ result.kind = "evaluation"
  /\ args.useVolumeFilter
  /\ HasVolumeBars
  /\ Len(candles) > VolMinBars
  /\ RGt(PrecedingMeanVolume, Zero)
  /\ RLt(LastVolumeOverMean, Num(1))
  /\ result.direction = "long"
  /\ RGe(candles[Len(candles)].c, RMul(args.threshold, args.N))
  /\ PassedVolumeFlag = "false"
  /\ result.breakoutType = "sub"

\* the texts of the suggestion
NoEntryTexts == {"No breakout; no entry.", "No entry."}
FullSizeText == "Full Turtle position size at current mid."
ScaleInText == "DCA: use 1/2 unit or 1st tranche; add on confirmation."

\* C13: the suggestion of every returned evaluation is a no-entry text if
\* the direction is none or the quality is none, the full-size text if the
\* quality is true and the scale-in (DCA) text if the quality is sub; an
\* evaluation with direction none has the tag None, whatever its quality.
C13_Suggestion ==
  (op = "evaluationTag" /\ result.kind = "evaluation") =>
    /\ (result.direction = "none" \/ result.breakoutType = "none")
          => result.suggestion \in NoEntryTexts
    /\ (result.direction # "none" /\ result.breakoutType = "true")
          => result.suggestion = FullSizeText
    /\ (result.direction # "none" /\ result.breakoutType = "sub")
          => result.suggestion = ScaleInText
    /\ (result.direction = "none" => result.tag = <<"None">>)

\* a breakout short of the target: quality sub and the scale-in text
C13_Witness ==
  /\ op = "evaluationTag"
  /\ result.kind = "evaluation"
  /\ result.direction = "long"
  /\ result.breakoutType = "sub"
  /\ result.suggestion = ScaleInText

\* C14: positionSize returns 0 whenever N <= 0 or price <= 0, whatever the
\* risk percent, the equity and the precision are; it returns a number and
\* signals no error.
C14_ZeroSizeOnBadInput ==
  (op = "positionSize" /\ (RLe(args.N, Zero) \/ RLe(args.price, Zero))) =>
    /\ result.kind = "number"
    /\ result.value = Zero

\* a positive N with a price of zero, and a positive risk budget
C14_Witness ==
  /\ op = "positionSize"
  /\ RGt(args.N, Zero)
  /\ args.price = Zero
  /\ RGt(args.riskPct, Zero)
  /\ result.value = Zero

\* the size before rounding: (riskPct / 100 * equity) / (N * price)
RawSize ==
  RDiv(RMul(RDiv(args.riskPct, Num(100)), args.accountUsd),
       RMul(args.N, args.price))

\* 10^-szDecimals
SizeStep == RDiv(Num(1), Pow10(args.szDecimals))

\* equity 10000, risk 1 percent, N = 5, price 100, 3 digits
ScenarioE ==
  [accountUsd |-> Num(10000), riskPct |-> Num(1), N |-> Num(5),
   price |-> Num(100), szDecimals |-> 3]

C16_Levels ==
  op = "slTpLevels" =>
    LET m     == args.options.tpMultiple
        given == args.options.present /\ m.present /\ RGt(m.val, Zero)
        twoN  == RAdd(args.N, args.N)
    IN  /\ result.sl = IF args.isLong THEN RSub(args.entry, twoN)
                                      ELSE RAdd(args.entry, twoN)
        /\ given =>
              /\ result.tp.present
              /\ result.tp.val =
                   IF args.isLong THEN RAdd(args.entry, RMul(m.val, args.N))
                                  ELSE RSub(args.entry, RMul(m.val, args.N))
        /\ ~given => ~result.tp.present

\* a short entry with a positive multiple: the stop above, the target below
C16_Witness ==
  /\ op = "slTpLevels"
  /\ ~args.isLong
  /\ args.options.present
  /\ args.options.tpMultiple = Some(Num(4))
  /\ RGt(result.sl, args.entry)
  /\ result.tp.present
  /\ RLt(result.tp.val, args.entry)

\* C17: every core operation is total: on any input, with an empty candle
\* sequence, an end index outside the sequence or a period n <= 0,
\* donchianBands, atr, evaluationTag, trailingExitLevel, positionSize and
\* slTpLevels return a value or null and never throw.
C17_Total == result.kind # "throws"

\* with periods n >= 1 no call throws, wherever the end index lies and
\* however short the window is
TotalForPositivePeriods ==
  (/\ op \in {"donchianBands", "atr"} => args.n >= 1
   /\ op = "trailingExitLevel" => args.exitPeriod >= 1
   /\ op = "evaluationTag" => (args.lenEntry >= 1 /\ args.len55 >= 1))
  => result.kind # "throws"

\* the last candle of the window has low <= close <= high
LastWellFormed ==
  LET last == candles[Len(candles)]
  IN  RLe(last.l, last.c) /\ RLe(last.c, last.h)

\* C18: when evaluationTag returns an evaluation for a window whose last
\* candle has low <= close <= high, the direction, the breakout type and the
\* strength are all none: the entry bands span the last candle itself.
C18_WellFormedLastBarIsNone ==
  (op = "evaluationTag" /\ result.kind = "evaluation" /\ LastWellFormed) =>
    /\ result.direction = "none"
    /\ result.breakoutType = "none"
    /\ result.strength = "none"

\* the last bar closes above the high of the bar before it, and the
\* evaluation is none all the same
C18_Witness ==
  /\ op = "evaluationTag"
  /\ result.kind = "evaluation"
  /\ Len(candles) >= 2
  /\ LastWellFormed
  /\ RGt(candles[Len(candles)].c, candles[Len(candles) - 1].h)
  /\ RLe(candles[Len(candles) - 1].l, candles[Len(candles) - 1].h)
  /\ result.direction = "none"

\* C19: in every evaluation the strength is never medium, the strength is
\* none exactly when the direction is none, a direction long or short comes
\* with breakout type true or sub, and the suggestion is never 'No entry.'.
C19_ReachableLabels ==
  (op = "evaluationTag" /\ result.kind = "evaluation") =>
    /\ result.strength # "medium"
    /\ (result.strength = "none" <=> result.direction = "none")
    /\ (result.direction \in {"long", "short"}
          => result.breakoutType \in {"true", "sub"})
    /\ result.suggestion # "No entry."

\* a short evaluation: a close below the bar's own low
C19_Witness ==
  /\ op = "evaluationTag"
  /\ result.kind = "evaluation"
  /\ result.direction = "short"
  /\ result.strength \in {"weak", "strong"}
  /\ result.breakoutType \in {"true", "sub"}

\* C20: the poll interval round-trips through the store: once
\* savePollIntervalToStorage(interval) has run, the next
\* loadPollIntervalFromStorage() (here with a working localStorage) returns
\* that interval, for every interval of 5m, 15m, 1h, 4h.
C20_RoundTrip ==
  (phase = "loaded" /\ storageWorks /\ lastSaved.present) =>
    pollInterval = lastSaved.val

\* C21: once the mount effect's cleanup has run, no reconnect timer is
\* pending and no WebSocket is made, whether the socket's close event came
\* before the cleanup or comes after it.
C21_NoReconnectAfterCleanup ==
  cancelled =>
    /\ timers = {}
    /\ Len(sockets) = socketsAtCleanup

\* C24: the k-th consecutive close since the last open (k = 0, 1, 2, ...) sets
\* exactly one reconnect timer, of min(1000 * 2^k, 30000) ms; the delay never
\* exceeds 30000 ms and never decreases from one close to the next without
\* an open between them; an open resets k to 0.
C24_Backoff ==
  /\ reconnectAttempts = closesSinceOpen
  /\ Len(timerLog) = Cardinality({ id \in 1..Len(sockets) : sockets[id] = "closed" })
  /\ \A t \in 1..Len(timerLog) :
       LET k == timerLog[t].k
       IN  /\ timerLog[t].delay = IF 1000 * 2^k < 30000 THEN 1000 * 2^k ELSE 30000
           /\ timerLog[t].delay <= 30000
           /\ (t > 1 /\ k > 0) =>
                 /\ k = timerLog[t - 1].k + 1
                 /\ timerLog[t].delay >= timerLog[t - 1].delay
  /\ (\E id \in 1..Len(sockets) : sockets[id] = "open") => reconnectAttempts = 0

\* six closes in a row, the last one at the cap, and then an open
C24_Witness ==
  /\ Len(timerLog) >= 6
  /\ timerLog[6].k = 5
  /\ timerLog[6].delay = MaxDelayMs
  /\ timerLog[5].delay < MaxDelayMs
  /\ \E id \in 1..Len(sockets) : sockets[id] = "open"
  /\ reconnectAttempts = 0

\* C22: at most one poll chain is alive: a chain whose effect has been
\* cleaned up (the interval changed, or the page was left) has no timer
\* pending, also when the cleanup came while its fetch was in flight.
C22_OnePollChain ==
  \A c \in 1..Len(pollChains) :
    c # activeChain => pollChains[c].state # "timer"

\* C23: once every candle fetch of a panel has settled, the stored candles
\* and the error shown are those of the fetch started last, which is the
\* one for the current interval: an earlier fetch that settles after a
\* later one does not overwrite the later one's result.
C23_LatestFetchWins ==
  (\A id \in 1..Len(fetches) : fetches[id].state # "inflight") =>
    LET latest == Len(fetches)
    IN  /\ candlesOf = latest
        /\ fetches[candlesOf].interval = pollInterval
        /\ candleError = IF fetches[latest].state = "ok" THEN 0 ELSE latest

====
